---------------------------- MODULE Spec2Model ----------------------------
(***************************************************************************)
(* A model of the legal-document simplifier: the structured-response       *)
(* parser, the clause grounder and the document annotator of               *)
(* Backend/app/ai_services.py, and the upload handler of                   *)
(* Backend/app/main.py running on the server's event loop.                 *)
(*                                                                         *)
(* A text is a sequence of lexical units.  A unit is one character (a      *)
(* string of length 1) or, inside a model response, one quoted JSON string *)
(* lexeme written with its quotes.  No operation of the program looks      *)
(* inside a quoted lexeme: strip, startswith("json"), the fence patterns   *)
(* and the JSON scanner's dispatch only read its first or last character,  *)
(* which is the quote.                                                     *)
(***************************************************************************)
EXTENDS Integers, Sequences, FiniteSets, TLC

\* ------------------------------------------------------------------ text

SetMin(S) == CHOOSE x \in S : \A y \in S : x <= y
SetMax(S) == CHOOSE x \in S : \A y \in S : x >= y

Rep(c, n) == [i \in 1..n |-> c]

\* The characters str.strip() removes, among those the model's texts use.
Whitespace == {" ", "\n", "\t"}

strip(s) ==
    LET keep == {i \in 1..Len(s) : s[i] \notin Whitespace}
    IN  IF keep = {} THEN <<>> ELSE SubSeq(s, SetMin(keep), SetMax(keep))

startswith(s, p) == Len(s) >= Len(p) /\ SubSeq(s, 1, Len(p)) = p

endswith(s, p) == Len(s) >= Len(p) /\ SubSeq(s, Len(s) - Len(p) + 1, Len(s)) = p

\* Whether old occurs in s at position i.
OccursAt(s, old, i) ==
    /\ i >= 1
    /\ i + Len(old) - 1 <= Len(s)
    /\ \A k \in 1..Len(old) : s[i + k - 1] = old[k]

\* str.find: the first position at or after `from` where old occurs, 0 if none.
find(s, old, from) ==
    LET hits == {i \in from..(Len(s) - Len(old) + 1) : OccursAt(s, old, i)}
    IN  IF hits = {} THEN 0 ELSE SetMin(hits)

\* The start positions str.replace(old, new) rewrites: leftmost first, never
\* overlapping, at most `count` of them (count < 0: all).
RECURSIVE MatchPositions(_, _, _, _)
MatchPositions(s, old, from, count) ==
    LET p == find(s, old, from)
    IN  IF p = 0 \/ count = 0 \/ Len(old) = 0
        THEN <<>>
        ELSE <<p>> \o MatchPositions(s, old, p + Len(old), count - 1)

RECURSIVE Splice(_, _, _, _, _)
Splice(s, n, new, ps, from) ==
    IF ps = <<>>
    THEN SubSeq(s, from, Len(s))
    ELSE SubSeq(s, from, Head(ps) - 1) \o new
            \o Splice(s, n, new, Tail(ps), Head(ps) + n)

\* str.replace(old, new, count) for a non-empty old.
str_replace(s, old, new, count) ==
    Splice(s, Len(old), new, MatchPositions(s, old, 1, count), 1)

\* str.split(sep) for a one-character separator.
RECURSIVE split(_, _)
split(s, sep) ==
    LET p == find(s, <<sep>>, 1)
    IN  IF p = 0
        THEN <<s>>
        ELSE <<SubSeq(s, 1, p - 1)>> \o split(SubSeq(s, p + 1, Len(s)), sep)

\* str.rsplit(sep, 1)[0] for a one-character separator.
rsplit1_head(s, sep) ==
    LET ps == {i \in 1..Len(s) : s[i] = sep}
    IN  IF ps = {} THEN s ELSE SubSeq(s, 1, SetMax(ps) - 1)

RECURSIVE Concat(_)
Concat(ss) == IF ss = <<>> THEN <<>> ELSE Head(ss) \o Concat(Tail(ss))

\* ------------------------------------------------------- Python values

PyStr(s) == [t |-> "str", v |-> s]
PyInt(n) == [t |-> "int", v |-> n]
PyBool(b) == [t |-> "bool", v |-> b]
PyNone == [t |-> "none", v |-> 0]
PyList(xs) == [t |-> "list", v |-> xs]
PySet(S) == [t |-> "set", v |-> S]
\* A dict: its items in insertion order, keys distinct.
PyDict(items) == [t |-> "dict", v |-> items]

isinstance(x, ty) == x.t = ty

HasKey(items, k) == \E i \in 1..Len(items) : items[i].k = k

\* d[k] = v on a dict's items: a present key keeps its place.
dict_set(items, k, v) ==
    IF HasKey(items, k)
    THEN [i \in 1..Len(items) |->
            IF items[i].k = k THEN [k |-> k, v |-> v] ELSE items[i]]
    ELSE Append(items, [k |-> k, v |-> v])

\* d.get(k, default)
dict_get(d, k, default) ==
    IF HasKey(d.v, k)
    THEN (d.v[CHOOSE i \in 1..Len(d.v) : d.v[i].k = k]).v
    ELSE default


\* ------------------------------------------------- the response parser

\* The grave accent, which a TLA+ string cannot hold, is the unit "GRAVE".
Grave == "GRAVE"
Fence == <<Grave, Grave, Grave>>
JsonTag == <<"j", "s", "o", "n">>

\* A leading-fence pattern without the optional json: r"^```".
sub_leading_fence_only(s) ==
    IF startswith(s, Fence) THEN SubSeq(s, Len(Fence) + 1, Len(s)) ELSE s

\* re.sub(r"^```(json)?", "", s)
sub_leading_fence(s) ==
    IF ~startswith(s, Fence)
    THEN s
    ELSE LET rest == SubSeq(s, Len(Fence) + 1, Len(s))
         IN  IF startswith(rest, JsonTag)
             THEN SubSeq(rest, Len(JsonTag) + 1, Len(rest))
             ELSE rest

\* re.sub(r"```$", "", s): $ is the end of the text, or the place before a
\* newline that ends it.
sub_trailing_fence(s) ==
    IF endswith(s, Fence)
    THEN SubSeq(s, 1, Len(s) - Len(Fence))
    ELSE IF endswith(s, Fence \o <<"\n">>)
         THEN SubSeq(s, 1, Len(s) - Len(Fence) - 1) \o <<"\n">>
         ELSE s

\* The cleanup of simplify_legal_document: the text handed to json.loads.
clean_text(raw) ==
    LET c0 == strip(raw)
        c1 == IF startswith(c0, JsonTag)
              THEN strip(str_replace(c0, JsonTag, <<>>, 1))
              ELSE c0
    IN  IF startswith(c1, Fence)
        THEN strip(sub_trailing_fence(strip(sub_leading_fence(c1))))
        ELSE c1

\* The quoted string lexemes the model's responses are written with, each with
\* the string it decodes to: as a dict key, and as a text.
StringLexemes ==
    { "\"SIMPLIFIED_SUMMARY\"",
      "\"KEY_CLAUSES\"",
      "\"RISK_ASSESSMENT\"",
      "\"IMPORTANT_TERMS\"",
      "\"ACTION_ITEMS\"",
      "\"overall_risk\"",
      "\"risk_factors\"",
      "\"title\"",
      "\"explanation\"",
      "\"importance\"",
      "\"original_excerpt\"",
      "\"ok\"",
      "\"High\"",
      "\"pay rent\"",
      "\"the rental period\"",
      "\"term\"",
      "\"late fee\"",
      "\"read it\"" }

key_of(lexeme) ==
    CASE lexeme = "\"SIMPLIFIED_SUMMARY\"" -> "SIMPLIFIED_SUMMARY"
      [] lexeme = "\"KEY_CLAUSES\"" -> "KEY_CLAUSES"
      [] lexeme = "\"RISK_ASSESSMENT\"" -> "RISK_ASSESSMENT"
      [] lexeme = "\"IMPORTANT_TERMS\"" -> "IMPORTANT_TERMS"
      [] lexeme = "\"ACTION_ITEMS\"" -> "ACTION_ITEMS"
      [] lexeme = "\"overall_risk\"" -> "overall_risk"
      [] lexeme = "\"risk_factors\"" -> "risk_factors"
      [] lexeme = "\"title\"" -> "title"
      [] lexeme = "\"explanation\"" -> "explanation"
      [] lexeme = "\"importance\"" -> "importance"
      [] lexeme = "\"original_excerpt\"" -> "original_excerpt"
      [] lexeme = "\"ok\"" -> "ok"
      [] lexeme = "\"High\"" -> "High"
      [] lexeme = "\"pay rent\"" -> "pay rent"
      [] lexeme = "\"the rental period\"" -> "the rental period"
      [] lexeme = "\"term\"" -> "term"
      [] lexeme = "\"late fee\"" -> "late fee"
      [] lexeme = "\"read it\"" -> "read it"

chars_of(lexeme) ==
    CASE lexeme = "\"SIMPLIFIED_SUMMARY\"" ->
            <<"S","I","M","P","L","I","F","I","E","D","_","S","U","M","M","A","R","Y">>
      [] lexeme = "\"KEY_CLAUSES\"" ->
            <<"K","E","Y","_","C","L","A","U","S","E","S">>
      [] lexeme = "\"RISK_ASSESSMENT\"" ->
            <<"R","I","S","K","_","A","S","S","E","S","S","M","E","N","T">>
      [] lexeme = "\"IMPORTANT_TERMS\"" ->
            <<"I","M","P","O","R","T","A","N","T","_","T","E","R","M","S">>
      [] lexeme = "\"ACTION_ITEMS\"" ->
            <<"A","C","T","I","O","N","_","I","T","E","M","S">>
      [] lexeme = "\"overall_risk\"" ->
            <<"o","v","e","r","a","l","l","_","r","i","s","k">>
      [] lexeme = "\"risk_factors\"" ->
            <<"r","i","s","k","_","f","a","c","t","o","r","s">>
      [] lexeme = "\"title\"" ->
            <<"t","i","t","l","e">>
      [] lexeme = "\"explanation\"" ->
            <<"e","x","p","l","a","n","a","t","i","o","n">>
      [] lexeme = "\"importance\"" ->
            <<"i","m","p","o","r","t","a","n","c","e">>
      [] lexeme = "\"original_excerpt\"" ->
            <<"o","r","i","g","i","n","a","l","_","e","x","c","e","r","p","t">>
      [] lexeme = "\"ok\"" ->
            <<"o","k">>
      [] lexeme = "\"High\"" ->
            <<"H","i","g","h">>
      [] lexeme = "\"pay rent\"" ->
            <<"p","a","y"," ","r","e","n","t">>
      [] lexeme = "\"the rental period\"" ->
            <<"t","h","e"," ","r","e","n","t","a","l"," ","p","e","r","i","o","d">>
      [] lexeme = "\"term\"" ->
            <<"t","e","r","m">>
      [] lexeme = "\"late fee\"" ->
            <<"l","a","t","e"," ","f","e","e">>
      [] lexeme = "\"read it\"" ->
            <<"r","e","a","d"," ","i","t">>

Digits == {"0", "1", "2", "3", "4", "5", "6", "7", "8", "9"}

DigitVal(c) ==
    CASE c = "0" -> 0 [] c = "1" -> 1 [] c = "2" -> 2 [] c = "3" -> 3
      [] c = "4" -> 4 [] c = "5" -> 5 [] c = "6" -> 6 [] c = "7" -> 7
      [] c = "8" -> 8 [] c = "9" -> 9

RECURSIVE DigitsVal(_)
DigitsVal(ds) ==
    IF ds = <<>> THEN 0
    ELSE 10 * DigitsVal(SubSeq(ds, 1, Len(ds) - 1)) + DigitVal(ds[Len(ds)])

\* The whitespace the JSON scanner skips.
JsonWs == {" ", "\n", "\t"}

skip_ws(s, i) ==
    LET rest == {j \in i..Len(s) : s[j] \notin JsonWs}
    IN  IF rest = {} THEN Len(s) + 1 ELSE SetMin(rest)

ParseFail == [ok |-> FALSE, v |-> PyNone, next |-> 0]
ParseOk(v, next) == [ok |-> TRUE, v |-> v, next |-> next]

\* The end of the number that starts at i: "0", or a run of digits.
NumberEnd(s, i) ==
    IF s[i] = "0" THEN i
    ELSE SetMax({j \in i..Len(s) : \A k \in i..j : s[k] \in Digits})

RECURSIVE parse_value(_, _)
RECURSIVE parse_members(_, _, _)
RECURSIVE parse_elements(_, _, _)

\* json's scanner at position i (whitespace already skipped).
parse_value(s, i) ==
    IF i > Len(s) THEN ParseFail
    ELSE IF s[i] \in StringLexemes THEN ParseOk(PyStr(chars_of(s[i])), i + 1)
    ELSE IF s[i] = "{" THEN
        LET j == skip_ws(s, i + 1)
        IN  IF j <= Len(s) /\ s[j] = "}"
            THEN ParseOk(PyDict(<<>>), j + 1)
            ELSE parse_members(s, j, <<>>)
    ELSE IF s[i] = "[" THEN
        LET j == skip_ws(s, i + 1)
        IN  IF j <= Len(s) /\ s[j] = "]"
            THEN ParseOk(PyList(<<>>), j + 1)
            ELSE parse_elements(s, j, <<>>)
    ELSE IF s[i] \in Digits THEN
        LET e == NumberEnd(s, i)
        IN  ParseOk(PyInt(DigitsVal(SubSeq(s, i, e))), e + 1)
    ELSE IF OccursAt(s, <<"n", "u", "l", "l">>, i) THEN ParseOk(PyNone, i + 4)
    ELSE IF OccursAt(s, <<"t", "r", "u", "e">>, i) THEN ParseOk(PyBool(TRUE), i + 4)
    ELSE IF OccursAt(s, <<"f", "a", "l", "s", "e">>, i)
         THEN ParseOk(PyBool(FALSE), i + 5)
    ELSE ParseFail

\* JSONObject's loop: key, colon, value, then "," or "}".
parse_members(s, i, acc) ==
    IF i > Len(s) \/ s[i] \notin StringLexemes THEN ParseFail
    ELSE
        LET c == skip_ws(s, i + 1)
        IN  IF c > Len(s) \/ s[c] # ":" THEN ParseFail
            ELSE
                LET r == parse_value(s, skip_ws(s, c + 1))
                IN  IF ~r.ok THEN ParseFail
                    ELSE
                        LET e == skip_ws(s, r.next)
                            items == dict_set(acc, key_of(s[i]), r.v)
                        IN  IF e > Len(s) THEN ParseFail
                            ELSE IF s[e] = "}" THEN ParseOk(PyDict(items), e + 1)
                            ELSE IF s[e] = ","
                                 THEN parse_members(s, skip_ws(s, e + 1), items)
                            ELSE ParseFail

\* JSONArray's loop: value, then "," or "]".
parse_elements(s, i, acc) ==
    LET r == parse_value(s, i)
    IN  IF ~r.ok THEN ParseFail
        ELSE
            LET e == skip_ws(s, r.next)
                xs == Append(acc, r.v)
            IN  IF e > Len(s) THEN ParseFail
                ELSE IF s[e] = "]" THEN ParseOk(PyList(xs), e + 1)
                ELSE IF s[e] = ","
                     THEN parse_elements(s, skip_ws(s, e + 1), xs)
                ELSE ParseFail

\* json.loads: one value, nothing but whitespace around it; ok = FALSE is
\* JSONDecodeError.
json_loads(s) ==
    LET r == parse_value(s, skip_ws(s, 1))
    IN  IF r.ok /\ skip_ws(s, r.next) > Len(s)
        THEN [ok |-> TRUE, v |-> r.v]
        ELSE [ok |-> FALSE, v |-> PyNone]


\* -------------------------------------------------- the clause grounder

\* The length a trimmed piece (and a referenced span) must exceed.
MinLen == 20
\* top_k of util.semantic_search.
TopK == 2

\* s.strip() for s in original_text.split('.')
pieces_of(original_text) ==
    LET pieces == split(original_text, ".")
    IN  [i \in 1..Len(pieces) |-> strip(pieces[i])]

\* [s.strip() for s in original_text.split('.') if len(s.strip()) > 20]
sentences_of(original_text) ==
    LET pieces == split(original_text, ".")
        trimmed == [i \in 1..Len(pieces) |-> strip(pieces[i])]
        Usable(s) == Len(s) > MinLen
    IN  SelectSeq(trimmed, Usable)

RECURSIVE Decimal(_)
Decimal(n) ==
    LET d == CHOOSE c \in Digits : DigitVal(c) = n % 10
    IN  IF n < 10 THEN <<d>> ELSE Decimal(n \div 10) \o <<d>>

\* f"clause_{i}": the identifier numbered from zero.
clause_id_from_zero(i) == <<"c", "l", "a", "u", "s", "e", "_">> \o Decimal(i)

\* f"clause_{i+1}" for the clause at zero-based position i.
clause_id(i) == <<"c", "l", "a", "u", "s", "e", "_">> \o Decimal(i + 1)

\* What util.semantic_search can return for one query over a corpus of n
\* sentences: the corpus ids (here 1-based) of the min(top_k, n) best hits,
\* best first.  Which sentences score best is the embedding model's choice.
HitLists(n) ==
    LET k == IF n < TopK THEN n ELSE TopK
    IN  {h \in [1..k -> 1..n] : \A a, b \in 1..k : a # b => h[a] # h[b]}

\* [sentences[hit['corpus_id']] for hit in hits[0]]
matched_sentences(sentences, hits) == [j \in 1..Len(hits) |-> sentences[hits[j]]]

\* What encoding the sentence list can do: an empty list makes torch.stack
\* raise in the library releases that stack unconditionally, and gives an
\* empty tensor (so every search returns no hit) in the others.
EncodeOutcomes(sentences) ==
    IF sentences = <<>> THEN {"raise", "empty"} ELSE {"tensor"}

\* What semantic_search can do with the encoded sentences: hits, or against
\* an empty corpus no hit or an error from the product of the embeddings.
SearchOutcomes(sentences) ==
    IF sentences = <<>> THEN {"raise", "no_hits"} ELSE {"hits"}

\* The mappings the loop of _extract_clause_references can build for m clauses:
\* items clause_1 .. clause_m in insertion order.
RECURSIVE ReferenceMaps(_, _)
ReferenceMaps(sentences, m) ==
    IF m = 0 THEN {<<>>}
    ELSE {Append(prev, [k |-> clause_id(m - 1), v |-> matched_sentences(sentences, h)]) :
            prev \in ReferenceMaps(sentences, m - 1),
            h \in HitLists(Len(sentences))}

\* _extract_clause_references: every outcome it can have.  encoded is the list
\* handed to similarity_model.encode at line 60.
_extract_clause_references(original_text, clauses) ==
    LET sentences == sentences_of(original_text)
    IN  {[raised |-> FALSE, encoded |-> sentences, value |-> refs] :
            refs \in ReferenceMaps(sentences, Len(clauses))}
        \cup
        (IF "raise" \in EncodeOutcomes(sentences)
                \cup (IF clauses = <<>> THEN {} ELSE SearchOutcomes(sentences))
         THEN {[raised |-> TRUE, encoded |-> sentences, value |-> <<>>]}
         ELSE {})

\* ------------------------------------------------ the document annotator

OpenHead ==
    <<"<","s","p","a","n"," ","c","l","a","s","s","=","\"","h","i","g","h",
      "l","i","g","h","t","e","d","-","c","l","a","u","s","e","\""," ","d",
      "a","t","a","-","c","l","a","u","s","e","-","i","d","=","\"">>
OpenTail ==
    <<"\""," ","t","i","t","l","e","=","\"","K","e","y"," ","C","l","a","u",
      "s","e","\"",">">>
CloseTag == <<"<","/","s","p","a","n",">">>

\* f'<span class="highlighted-clause" data-clause-id="{clause_id}" title="Key Clause">'
OpenTag(cid) == OpenHead \o cid \o OpenTail

\* The (clause_id, ref_text) pairs in the order the two loops visit them.
RECURSIVE ReferencePairs(_)
ReferencePairs(refs) ==
    IF refs = <<>> THEN <<>>
    ELSE [j \in 1..Len(Head(refs).v) |-> [cid |-> Head(refs).k, ref |-> Head(refs).v[j]]]
            \o ReferencePairs(Tail(refs))

\* if ref_text and len(ref_text.strip()) > 20
Wrappable(ref_text) == ref_text # <<>> /\ Len(strip(ref_text)) > MinLen

\* s with pre and post put around the n units at each position of ps.
RECURSIVE Wrap(_, _, _, _, _, _)
Wrap(s, n, pre, post, ps, from) ==
    IF ps = <<>>
    THEN SubSeq(s, from, Len(s))
    ELSE SubSeq(s, from, Head(ps) - 1) \o pre
            \o SubSeq(s, Head(ps), Head(ps) + n - 1) \o post
            \o Wrap(s, n, pre, post, Tail(ps), Head(ps) + n)

\* The inner loop's pass with replace(ref_text, ..., 1): the first occurrence only.
highlight_step_first(st, cid, ref_text) ==
    IF ~(ref_text # <<>> /\ Len(strip(ref_text)) > MinLen) THEN st
    ELSE
        LET ps == MatchPositions(st.text, ref_text, 1, 1)
            open == OpenHead \o cid \o OpenTail
            n == Len(ref_text)
        IN  [text |-> str_replace(st.text, ref_text, open \o ref_text \o CloseTag, 1),
             ins |-> Wrap(st.ins, n, Rep(TRUE, Len(open)), Rep(TRUE, Len(CloseTag)), ps, 1),
             touched |-> st.touched \/
                \E i \in 1..Len(ps) : \E k \in 0..(n - 1) : st.ins[ps[i] + k]]

\* One pass of the inner loop.  text is highlighted_text.  ins and touched are
\* history, not program state: ins[i] says unit i of text was inserted by a
\* replacement, touched that some replacement matched text holding such a unit.
highlight_step(st, cid, ref_text) ==
    IF ~Wrappable(ref_text) THEN st
    ELSE
        LET ps == MatchPositions(st.text, ref_text, 1, -1)
            open == OpenTag(cid)
            n == Len(ref_text)
        IN  [text |-> str_replace(st.text, ref_text, open \o ref_text \o CloseTag, -1),
             ins |-> Wrap(st.ins, n, Rep(TRUE, Len(open)), Rep(TRUE, Len(CloseTag)), ps, 1),
             touched |-> st.touched \/
                \E i \in 1..Len(ps) : \E k \in 0..(n - 1) : st.ins[ps[i] + k]]

RECURSIVE highlight_fold(_, _)
highlight_fold(st, pairs) ==
    IF pairs = <<>> THEN st
    ELSE highlight_fold(highlight_step(st, Head(pairs).cid, Head(pairs).ref), Tail(pairs))

HighlightRun(original_text, clause_references) ==
    highlight_fold([text |-> original_text,
                    ins |-> Rep(FALSE, Len(original_text)),
                    touched |-> FALSE],
                   ReferencePairs(clause_references))

_highlight_text_with_clauses(original_text, clause_references) ==
    HighlightRun(original_text, clause_references).text


\* --------------------------------------------------- rendering the result

UpperCase ==
    <<"A","B","C","D","E","F","G","H","I","J","K","L","M",
      "N","O","P","Q","R","S","T","U","V","W","X","Y","Z">>
LowerCase ==
    <<"a","b","c","d","e","f","g","h","i","j","k","l","m",
      "n","o","p","q","r","s","t","u","v","w","x","y","z">>

\* str.lower()
lower(s) ==
    [i \in 1..Len(s) |->
        IF \E j \in 1..26 : UpperCase[j] = s[i]
        THEN LowerCase[CHOOSE j \in 1..26 : UpperCase[j] = s[i]]
        ELSE s[i]]

RECURSIVE py_repr(_)
RECURSIVE JoinRepr(_)
RECURSIVE JoinItems(_)

\* ", ".join(repr(x) for x in xs)
JoinRepr(xs) ==
    IF xs = <<>> THEN <<>>
    ELSE IF Len(xs) = 1 THEN py_repr(xs[1])
    ELSE py_repr(xs[1]) \o <<",", " ">> \o JoinRepr(Tail(xs))

\* ", ".join(f"{k!r}: {v!r}" for k, v in d.items()); a key is one unit.
JoinItems(items) ==
    IF items = <<>> THEN <<>>
    ELSE LET one == <<"'", items[1].k, "'", ":", " ">> \o py_repr(items[1].v)
         IN  IF Len(items) = 1 THEN one
             ELSE one \o <<",", " ">> \o JoinItems(Tail(items))

\* repr(x), for the values json.loads builds (texts without quotes in them).
py_repr(x) ==
    CASE x.t = "str" -> <<"'">> \o x.v \o <<"'">>
      [] x.t = "int" -> Decimal(x.v)
      [] x.t = "none" -> <<"N","o","n","e">>
      [] x.t = "bool" -> IF x.v THEN <<"T","r","u","e">> ELSE <<"F","a","l","s","e">>
      [] x.t = "list" -> <<"[">> \o JoinRepr(x.v) \o <<"]">>
      [] x.t = "dict" -> <<"{">> \o JoinItems(x.v) \o <<"}">>

\* str(x), which is what an f-string's {x} renders.
py_str(x) == IF x.t = "str" THEN x.v ELSE py_repr(x)

\* bool(x)
truthy(x) ==
    CASE x.t = "str" -> x.v # <<>>
      [] x.t = "int" -> x.v # 0
      [] x.t = "none" -> FALSE
      [] x.t = "bool" -> x.v
      [] x.t = "list" -> x.v # <<>>
      [] x.t = "dict" -> x.v # <<>>

\* Whether a for loop can run over x.
Iterable(x) == x.t \in {"list", "str", "dict"}

\* The values a for loop over x visits: a list's elements, a str's characters,
\* a dict's keys (each key one unit).
IterItems(x) ==
    CASE x.t = "list" -> x.v
      [] x.t = "str" -> [i \in 1..Len(x.v) |-> PyStr(<<x.v[i]>>)]
      [] x.t = "dict" -> [i \in 1..Len(x.v) |-> PyStr(<<x.v[i].k>>)]

Raised(exc) == [exc |-> exc, raised |-> TRUE, value |-> PyNone]
Returned(v) == [exc |-> "", raised |-> FALSE, value |-> v]

\* One clause block of the first loop.  The templates' literal text is written
\* as whole units, without the indentation of the source's f-string.
clause_html(i, clause) ==
    IF isinstance(clause, "dict")
    THEN <<"<div class='clause-item' data-clause-id='clause_">> \o Decimal(i + 1)
            \o <<"'><h4 class='clause-title'>">>
            \o py_str(dict_get(clause, "title",
                               PyStr(<<"C","l","a","u","s","e"," ">> \o Decimal(i + 1))))
            \o <<"</h4><div class='clause-importance importance-">>
            \o lower(dict_get(clause, "importance", PyStr(<<"m","e","d","i","u","m">>)).v)
            \o <<"'>Importance: ">>
            \o py_str(dict_get(clause, "importance", PyStr(<<"M","e","d","i","u","m">>)))
            \o <<"</div><p class='clause-explanation'>">>
            \o py_str(dict_get(clause, "explanation", PyStr(<<>>)))
            \o <<"</p>">>
            \o (IF truthy(dict_get(clause, "original_excerpt", PyNone))
                THEN <<"<blockquote class='original-text'>">>
                        \o py_str(dict_get(clause, "original_excerpt", PyStr(<<>>)))
                        \o <<"</blockquote>">>
                ELSE <<>>)
            \o <<"</div>">>
    ELSE <<"<div class='clause-item' data-clause-id='clause_">> \o Decimal(i + 1)
            \o <<"'><p class='clause-explanation'>">> \o py_str(clause)
            \o <<"</p></div>">>

\* What the first loop appends to clause_texts for one clause.
clause_text(clause) ==
    IF isinstance(clause, "dict")
    THEN dict_get(clause, "explanation", PyStr(<<>>))
    ELSE PyStr(py_str(clause))

\* .lower() is called on the importance of every dict clause.
ClauseLoopRaises(clauses) ==
    \E i \in 1..Len(clauses) :
        /\ isinstance(clauses[i], "dict")
        /\ ~isinstance(dict_get(clauses[i], "importance", PyStr(<<>>)), "str")

risk_html(risk_data) ==
    IF isinstance(risk_data, "dict")
    THEN <<"<div class='risk-assessment'><div class='overall-risk risk-level-">>
            \o py_str(dict_get(risk_data, "overall_risk", PyInt(5)))
            \o <<"'><strong>Overall Risk Score: ">>
            \o py_str(dict_get(risk_data, "overall_risk", PyInt(5)))
            \o <<"/10</strong></div><ul class='risk-factors'>">>
            \o Concat([j \in 1..Len(IterItems(dict_get(risk_data, "risk_factors", PyList(<<>>)))) |->
                        <<"<li class='risk-item'>">>
                        \o py_str(IterItems(dict_get(risk_data, "risk_factors", PyList(<<>>)))[j])
                        \o <<"</li>">>])
            \o <<"</ul></div>">>
    ELSE <<"<div class='risk-assessment'><p>Risk Score: ">> \o py_str(risk_data)
            \o <<"/10</p></div>">>

terms_html(terms) ==
    <<"<div class='terms-section'>">>
    \o (IF isinstance(terms, "dict")
        THEN Concat([j \in 1..Len(terms.v) |->
                <<"<div class='term-item'><strong class='term-name'>", terms.v[j].k,
                  "</strong>: <span class='term-definition'>">>
                \o py_str(terms.v[j].v) \o <<"</span></div>">>])
        ELSE <<>>)
    \o <<"</div>">>

actions_html(actions) ==
    <<"<ul class='action-items'>">>
    \o Concat([j \in 1..Len(IterItems(actions)) |->
            <<"<li class='action-item'>">> \o py_str(IterItems(actions)[j]) \o <<"</li>">>])
    \o <<"</ul>">>

DocumentDiv(inner) == <<"<div class='document-text'>">> \o inner \o <<"</div>">>

\* The exception lines 139-200 of _format_response_with_html raise for this
\* parsed value, "" when they raise none.
format_raises(result) ==
    IF ~isinstance(result, "dict") THEN "AttributeError"
    ELSE
        LET clauses == dict_get(result, "KEY_CLAUSES", PyList(<<>>))
            risk_data == dict_get(result, "RISK_ASSESSMENT", PyDict(<<>>))
            actions == dict_get(result, "ACTION_ITEMS", PyList(<<>>))
        IN  IF ~Iterable(clauses) THEN "TypeError"
            ELSE IF ClauseLoopRaises(IterItems(clauses)) THEN "AttributeError"
            ELSE IF isinstance(risk_data, "dict")
                        /\ ~Iterable(dict_get(risk_data, "risk_factors", PyList(<<>>)))
                 THEN "TypeError"
            ELSE IF ~Iterable(actions) THEN "TypeError"
            ELSE ""

\* clause_texts as the first loop leaves it.
clause_texts_of(result) ==
    LET items == IterItems(dict_get(result, "KEY_CLAUSES", PyList(<<>>)))
    IN  [i \in 1..Len(items) |-> clause_text(items[i])]

\* The dict _format_response_with_html returns, given what the grounder and
\* the annotator returned.
formatted_result(result, highlighted_document, clause_references) ==
    LET items == IterItems(dict_get(result, "KEY_CLAUSES", PyList(<<>>)))
    IN  PyDict(<<
         [k |-> "SIMPLIFIED_SUMMARY",
          v |-> PyStr(<<"<div class='summary-section'><p>">>
                    \o py_str(dict_get(result, "SIMPLIFIED_SUMMARY", PyStr(<<>>)))
                    \o <<"</p></div>">>)],
         [k |-> "KEY_CLAUSES",
          v |-> PyList([i \in 1..Len(items) |-> PyStr(clause_html(i - 1, items[i]))])],
         [k |-> "RISK_ASSESSMENT",
          v |-> PyStr(risk_html(dict_get(result, "RISK_ASSESSMENT", PyDict(<<>>))))],
         [k |-> "IMPORTANT_TERMS",
          v |-> PyStr(terms_html(dict_get(result, "IMPORTANT_TERMS", PyDict(<<>>))))],
         [k |-> "ACTION_ITEMS",
          v |-> PyStr(actions_html(dict_get(result, "ACTION_ITEMS", PyList(<<>>))))],
         [k |-> "highlighted_document", v |-> PyStr(DocumentDiv(highlighted_document))],
         [k |-> "clause_references",
          v |-> PyDict([i \in 1..Len(clause_references) |->
                    [k |-> clause_references[i].k,
                     v |-> PyList([j \in 1..Len(clause_references[i].v) |->
                                    PyStr(clause_references[i].v[j])])]])]>>)

\* _format_response_with_html: every outcome it can have.
_format_response_with_html(result, original_text) ==
    IF format_raises(result) # "" THEN {Raised(format_raises(result))}
    ELSE {IF g.raised THEN Raised("RuntimeError")
          ELSE Returned(formatted_result(result,
                    _highlight_text_with_clauses(original_text, g.value), g.value))
          : g \in _extract_clause_references(original_text, clause_texts_of(result))}

\* The record the except branch of simplify_legal_document returns.
fallback_result(response_text, text) ==
    PyDict(<<
     [k |-> "SIMPLIFIED_SUMMARY", v |-> PySet({PyStr(response_text)})],
     [k |-> "KEY_CLAUSES",
      v |-> PyList(<<PyDict(<<[k |-> "title", v |-> PyStr(<<"Unable to parse">>)],
                         [k |-> "explanation", v |-> PyStr(<<"Please review manually">>)],
                         [k |-> "importance", v |-> PyStr(<<"Medium">>)]>>)>>)],
     [k |-> "RISK_ASSESSMENT",
      v |-> PyDict(<<[k |-> "overall_risk", v |-> PyInt(5)],
                     [k |-> "risk_factors", v |-> PyList(<<>>)]>>)],
     [k |-> "IMPORTANT_TERMS", v |-> PyDict(<<>>)],
     [k |-> "ACTION_ITEMS", v |-> PyList(<<PyStr(<<"<p>Review document carefully</p>">>)>>)],
     [k |-> "highlighted_document", v |-> PyStr(DocumentDiv(text))]>>)

\* simplify_legal_document once generate_content has returned response_text:
\* every outcome it can have.  Only json.JSONDecodeError is caught.
simplify_legal_document(response_text, text) ==
    LET parsed == json_loads(clean_text(response_text))
    IN  IF parsed.ok
        THEN _format_response_with_html(parsed.v, text)
        ELSE {Returned(fallback_result(response_text, text))}


\* ------------------------------------------------------------- the inputs

\* Bounds of the model.
MaxClauses == 2
MaxPieces == 2

RECURSIVE JoinWith(_, _)
JoinWith(xs, sep) ==
    IF xs = <<>> THEN <<>>
    ELSE IF Len(xs) = 1 THEN xs[1]
    ELSE xs[1] \o sep \o JoinWith(Tail(xs), sep)

\* The clauses a response lists: a full clause object, a clause object with an
\* explanation only, and a bare string.
ClauseJson(i) ==
    CASE i % 3 = 1 -> <<"{", "\"title\"", ":", "\"term\"", ",", "\"importance\"", ":",
                        "\"High\"", ",", "\"explanation\"", ":", "\"the rental period\"", "}">>
      [] i % 3 = 2 -> <<"{", "\"explanation\"", ":", "\"pay rent\"", "}">>
      [] i % 3 = 0 -> <<"\"read it\"">>

\* A response object with all five sections and m clauses.
ObjectJson(m) ==
    <<"{", "\"SIMPLIFIED_SUMMARY\"", ":", " ", "\"ok\"", ",", "\n",
      "\"KEY_CLAUSES\"", ":", "[">>
    \o JoinWith([i \in 1..m |-> ClauseJson(i)], <<",", " ">>)
    \o <<"]", ",", "\"RISK_ASSESSMENT\"", ":", "{", "\"overall_risk\"", ":", "7", ",",
         "\"risk_factors\"", ":", "[", "\"late fee\"", "]", "}", ",",
         "\"IMPORTANT_TERMS\"", ":", "{", "\"term\"", ":", "\"ok\"", "}", ",",
         "\"ACTION_ITEMS\"", ":", "[", "\"read it\"", "]", "}">>

\* A response object whose risk assessment holds these members only.
RiskJson(members) ==
    <<"{", "\"RISK_ASSESSMENT\"", ":", "{">> \o members \o <<"}", "}">>

\* Risk assessments with no overall_risk, and with one that is a text, null
\* or a number.
RiskPayloads ==
    { RiskJson(<<>>),
      RiskJson(<<"\"risk_factors\"", ":", "[", "\"late fee\"", "]">>),
      RiskJson(<<"\"overall_risk\"", ":", "\"High\"">>),
      RiskJson(<<"\"overall_risk\"", ":", "n", "u", "l", "l">>),
      RiskJson(<<"\"overall_risk\"", ":", "1", "0">>) }

\* Well-formed JSON texts: objects, and values that are not objects.
WellFormedPayloads ==
    {ObjectJson(m) : m \in 0..MaxClauses}
    \cup RiskPayloads
    \cup { <<"{", "\"SIMPLIFIED_SUMMARY\"", ":", "\"ok\"", "}">>,
           <<"{", "}">>,
           <<"{", "\"KEY_CLAUSES\"", ":", "5", "}">>,
           <<"[", "]">>,
           <<"[", "\"ok\"", ",", "1", "2", "]">>,
           <<"4", "2">>,
           <<"\"ok\"">>,
           <<"n", "u", "l", "l">> }

\* Texts json.loads rejects: truncated JSON, prose, nothing.
MalformedPayloads ==
    { <<"{", "\"SIMPLIFIED_SUMMARY\"", ":", "\"ok\"", ",">>,
      <<"{", "\"SIMPLIFIED_SUMMARY\"", ":">>,
      <<"s", "o", " ", "o", "n">>,
      <<"j", "s", "o", "n">>,
      <<"{", "\"ok\"", ":", "1", "}", " ", "o", "k">>,
      <<>> }

Payloads == WellFormedPayloads \cup MalformedPayloads

\* How a response wraps its payload: kind is bare, fence (triple grave accents
\* on both sides), fence_json (the opening fence followed at once by json) or
\* json_tag (a leading json token); outer and inner are the whitespace around
\* the whole and around the payload.
Wrappings ==
    [kind : {"bare", "fence", "fence_json", "json_tag"},
     outer : {<<>>, <<" ", "\n">>},
     inner : {<<>>, <<"\n">>}]

Wrapped(payload, w) ==
    CASE w.kind = "bare" -> w.outer \o payload \o w.outer
      [] w.kind = "fence" ->
            w.outer \o Fence \o w.inner \o payload \o w.inner \o Fence \o w.outer
      [] w.kind = "fence_json" ->
            w.outer \o Fence \o JsonTag \o w.inner \o payload \o w.inner \o Fence \o w.outer
      [] w.kind = "json_tag" -> w.outer \o JsonTag \o w.inner \o payload \o w.outer

Bare == [kind |-> "bare", outer |-> <<>>, inner |-> <<>>]

\* The pieces documents are made of: two sentences over the length limit, the
\* second holding the first; a piece of exactly the limit; a short piece; and a
\* sentence that reads like part of the annotator's markup.
SentA == Rep("a", MinLen + 1)
SentB == Rep("a", MinLen + 2)
SentLimit == Rep("b", MinLen)
Short == <<"h", "i">>
SentMark ==
    <<"c","l","a","s","s","=","\"","h","i","g","h","l","i","g","h","t","e",
      "d","-","c","l","a","u","s","e","\"">>

DocPieces == {SentA, SentB, SentLimit, Short, SentMark}

RECURSIVE PieceLists(_)
PieceLists(n) ==
    IF n = 0 THEN {<<>>}
    ELSE PieceLists(n - 1)
         \cup {Append(ps, p) : ps \in {q \in PieceLists(n - 1) : Len(q) = n - 1},
                              p \in DocPieces}

\* A document: its pieces, each ended by a period, a space between them.
DocumentOf(ps) == JoinWith([i \in 1..Len(ps) |-> ps[i] \o <<".">>], <<" ">>)

Documents == {DocumentOf(ps) : ps \in PieceLists(MaxPieces)}

SampleDocument == DocumentOf(<<SentA, Short>>)


\* ---------------------------------------------------- the upload handler

\* The order list(obj) gives a set's elements is the interpreter's; the sets
\* the program builds hold one element.
RECURSIVE SetToList(_)
SetToList(S) ==
    IF S = {} THEN <<>>
    ELSE LET x == CHOOSE y \in S : TRUE IN <<x>> \o SetToList(S \ {x})

\* convert_sets_to_lists: a set becomes a list; dicts and lists are walked.
RECURSIVE convert_sets_to_lists(_)
convert_sets_to_lists(obj) ==
    IF isinstance(obj, "set") THEN PyList(SetToList(obj.v))
    ELSE IF isinstance(obj, "dict")
    THEN PyDict([i \in 1..Len(obj.v) |->
                    [k |-> obj.v[i].k, v |-> convert_sets_to_lists(obj.v[i].v)]])
    ELSE IF isinstance(obj, "list")
    THEN PyList([i \in 1..Len(obj.v) |-> convert_sets_to_lists(obj.v[i])])
    ELSE obj

\* Whether json.dumps can serialise obj: it raises TypeError on a set.
RECURSIVE Serialisable(_)
Serialisable(obj) ==
    IF isinstance(obj, "set") THEN FALSE
    ELSE IF isinstance(obj, "dict")
    THEN \A i \in 1..Len(obj.v) : Serialisable(obj.v[i].v)
    ELSE IF isinstance(obj, "list")
    THEN \A i \in 1..Len(obj.v) : Serialisable(obj.v[i])
    ELSE TRUE

\* A byte no UTF-8 text holds.
BadByte == "\\xff"

\* bytes.decode('utf-8', errors='ignore')
decode_ignore(bytes) ==
    LET Valid(b) == b # BadByte IN SelectSeq(bytes, Valid)

\* filename.endswith(('.pdf', '.txt', '.docx'))
SupportedType(filename) ==
    \/ endswith(filename, <<".", "p", "d", "f">>)
    \/ endswith(filename, <<".", "t", "x", "t">>)
    \/ endswith(filename, <<".", "d", "o", "c", "x">>)

IsPdf(filename) == endswith(filename, <<".", "p", "d", "f">>)

\* file.filename.replace(" ", "_").rsplit(".", 1)[0]
safe_name(filename) == rsplit1_head(str_replace(filename, <<" ">>, <<"_">>, -1), ".")

\* os.path.join(SAVE_DIR, f"{safe_name}_{timestamp}.txt"): the timestamp has
\* the second as its last field and a fixed width, so the path is this pair.
save_path(filename, second) == [name |-> safe_name(filename), ts |-> second]

\* ------------------------------------ one run of simplify_legal_document

VARIABLES
    entry,          \* "simplify": a run of simplify_legal_document on a response;
                    \* "annotate": _highlight_text_with_clauses applied to given arguments
    response,       \* response.text
    payload,        \* history: the text the response wraps
    wrapping,       \* history: how the response wraps it
    text,           \* the document text (original_text)
    phase,          \* where the run is
    cleaned,        \* clean_text
    parsed,         \* what json.loads gave
    clause_texts,
    sentences,
    calls,          \* history: the calls made to the similarity model
    refs,           \* clause_references, as far as it is built
    hl,             \* highlighted_text, with its history
    outcome         \* what the run returned or raised

pvars == <<entry, response, payload, wrapping, text, phase, cleaned, parsed,
           clause_texts, sentences, calls, refs, hl, outcome>>

NoParse == [ok |-> FALSE, v |-> PyNone]
NoHighlight == [text |-> <<>>, ins |-> <<>>, touched |-> FALSE]
NoOutcome == [exc |-> "", raised |-> FALSE, value |-> PyNone]

\* ------------------------------------------------ the server's state

\* Bounds of the model.
NumRequests == 2
MaxTime == 1

Requests == 1..NumRequests

\* A request to /upload-document/: a file name and what the file holds, as
\* bytes (text files) and as the text of each page the OCR processor reads
\* from it (PDFs).
UploadRequest(filename, bytes, pages) ==
    [kind |-> "upload", filename |-> filename, bytes |-> bytes, pages |-> pages,
     document_id |-> 0]

\* A request to /ask-question/ about the document of that id.
QuestionRequest(document_id) ==
    [kind |-> "ask", filename |-> <<>>, bytes |-> <<>>, pages |-> <<>>,
     document_id |-> document_id]

Uploads ==
    { UploadRequest(<<"a", ".", "t", "x", "t">>, SentA \o <<".", BadByte>>, <<>>),
      UploadRequest(<<"a", " ", "b", ".", "t", "x", "t">>, <<"h", "i">>, <<>>),
      UploadRequest(<<"a", "_", "b", ".", "p", "d", "f">>, <<"%", "P", "D", "F">>,
                    <<<<"h", "i", ".">>, <<"y", "o">>>>),
      UploadRequest(<<"a", ".", "e", "x", "e">>, <<"M", "Z">>, <<>>) }

Questions == { QuestionRequest(i) : i \in 1..NumRequests }

VARIABLES
    pc,         \* where each request's handler is
    req,        \* what each request carries: an upload or a question
    loc,        \* the handler's locals: extracted_text, page, simplified_result
    status,     \* the HTTP status each request ended with, 0 while it has none
    loop,       \* the request whose handler runs on the event loop, 0 if none
    now,        \* the clock, in seconds
    files,      \* SAVE_DIR: path -> content, with the requests that wrote it
    db          \* the documents table, each row with the request that added it

svars == <<pc, req, loc, status, loop, now, files, db>>

NoRequest == UploadRequest(<<>>, <<>>, <<>>)
NoLocals == [extracted_text |-> <<>>, page |-> 0, simplified_result |-> PyNone,
             answer |-> <<>>]

ServerIdle ==
    /\ pc = [r \in Requests |-> "idle"]
    /\ req = [r \in Requests |-> NoRequest]
    /\ loc = [r \in Requests |-> NoLocals]
    /\ status = [r \in Requests |-> 0]
    /\ loop = 0
    /\ now = 0
    /\ files = <<>>
    /\ db = <<>>

\* ------------------------------------------ the frontend's session state

\* Bounds of the model.
MaxUploads == 2
MaxQuestions == 2

VARIABLES
    doc_data,       \* st.session_state.doc_data: the upload response being viewed
    qa_history,     \* st.session_state.qa_history: the list object it refers to
    doc_history,    \* st.session_state.doc_history: entries filename, data, qa
    heap,           \* the list objects, by identity: each a list of Q&A entries
    notice,         \* the message the last run of the script showed
    uploaded,       \* how many uploads the backend has stored
    asked           \* how many questions have been sent

fvars == <<doc_data, qa_history, doc_history, heap, notice, uploaded, asked>>
vars == <<pvars, svars, fvars>>

\* doc_data = None
NoDocument == [document_id |-> 0, filename |-> ""]

\* Lines 98-103: a new session.  qa_history is a new empty list.
SessionInit ==
    /\ doc_data = NoDocument
    /\ heap = <<<<>>>>
    /\ qa_history = 1
    /\ doc_history = <<>>
    /\ notice = ""
    /\ uploaded = 0
    /\ asked = 0

PipelineInit ==
    /\ ServerIdle
    /\ SessionInit
    /\ cleaned = <<>>
    /\ parsed = NoParse
    /\ clause_texts = <<>>
    /\ sentences = <<>>
    /\ calls = <<>>
    /\ hl = NoHighlight
    /\ outcome = NoOutcome
    /\ \/ /\ entry = "simplify"
          /\ phase = "start"
          /\ refs = <<>>
          /\ \/ \E p \in Payloads, w \in Wrappings :
                    /\ payload = p
                    /\ wrapping = w
                    /\ response = Wrapped(p, w)
                    /\ text = SampleDocument
             \/ \E m \in 0..MaxClauses, d \in Documents :
                    /\ payload = ObjectJson(m)
                    /\ wrapping = Bare
                    /\ response = ObjectJson(m)
                    /\ text = d
       \/ /\ entry = "annotate"
          /\ phase = "grounded"
          /\ payload = <<>>
          /\ wrapping = Bare
          /\ response = <<>>
          /\ \E d \in Documents \ {<<>>} :
                \E j \in 1..Len(pieces_of(d)) :
                    /\ text = d
                    /\ refs = <<[k |-> clause_id(0), v |-> <<pieces_of(d)[j]>>]>>

\* Lines 115-122: the cleanup.
Clean ==
    /\ UNCHANGED <<svars, fvars>>
    /\ phase = "start"
    /\ cleaned' = clean_text(response)
    /\ phase' = "cleaned"
    /\ UNCHANGED <<entry, response, payload, wrapping, text, parsed, clause_texts,
                   sentences, calls, refs, hl, outcome>>

\* Line 124, and the except branch when json.loads raises JSONDecodeError.
Loads ==
    /\ UNCHANGED <<svars, fvars>>
    /\ phase = "cleaned"
    /\ parsed' = json_loads(cleaned)
    /\ IF json_loads(cleaned).ok
       THEN /\ phase' = "parsed"
            /\ outcome' = outcome
       ELSE /\ phase' = "done"
            /\ outcome' = Returned(fallback_result(response, text))
    /\ UNCHANGED <<entry, response, payload, wrapping, text, cleaned, clause_texts,
                   sentences, calls, refs, hl>>

\* Lines 139-200 of _format_response_with_html; what they raise leaves
\* simplify_legal_document, which catches JSONDecodeError only.
Format ==
    /\ UNCHANGED <<svars, fvars>>
    /\ phase = "parsed"
    /\ IF format_raises(parsed.v) # ""
       THEN /\ phase' = "done"
            /\ outcome' = Raised(format_raises(parsed.v))
            /\ clause_texts' = clause_texts
       ELSE /\ phase' = "formatted"
            /\ outcome' = outcome
            /\ clause_texts' = clause_texts_of(parsed.v)
    /\ UNCHANGED <<entry, response, payload, wrapping, text, cleaned, parsed,
                   sentences, calls, refs, hl>>

EncodeCall(n) == [fn |-> "encode", what |-> "sentences", n |-> n]
ClauseCall(n) == [fn |-> "encode", what |-> "clause", n |-> n]
SearchCall(n) == [fn |-> "semantic_search", what |-> "corpus", n |-> n]

\* Lines 59-60: the sentence list is built and handed to encode, whatever its
\* length.
Encode ==
    /\ UNCHANGED <<svars, fvars>>
    /\ phase = "formatted"
    /\ sentences' = sentences_of(text)
    /\ calls' = Append(calls, EncodeCall(Len(sentences_of(text))))
    /\ \E o \in EncodeOutcomes(sentences_of(text)) :
        IF o = "raise"
        THEN /\ phase' = "done"
             /\ outcome' = Raised("RuntimeError")
        ELSE /\ phase' = IF clause_texts = <<>> THEN "grounded" ELSE "searching"
             /\ outcome' = outcome
    /\ UNCHANGED <<entry, response, payload, wrapping, text, cleaned, parsed,
                   clause_texts, refs, hl>>

\* Lines 62-67: one pass of the loop over the clauses.  Against an empty
\* corpus the search gives no hit or raises on the shapes of its operands.
Search ==
    /\ UNCHANGED <<svars, fvars>>
    /\ phase = "searching"
    /\ calls' = calls \o <<ClauseCall(1), SearchCall(Len(sentences))>>
    /\ \E o \in SearchOutcomes(sentences) :
        IF o = "raise"
        THEN /\ phase' = "done"
             /\ outcome' = Raised("RuntimeError")
             /\ refs' = refs
        ELSE /\ \E h \in HitLists(Len(sentences)) :
                    refs' = Append(refs, [k |-> clause_id(Len(refs)),
                                          v |-> matched_sentences(sentences, h)])
             /\ phase' = IF Len(refs) + 1 = Len(clause_texts)
                         THEN "grounded" ELSE "searching"
             /\ outcome' = outcome
    /\ UNCHANGED <<entry, response, payload, wrapping, text, cleaned, parsed,
                   clause_texts, sentences, hl>>

\* _highlight_text_with_clauses on the document and the references.
Highlight ==
    /\ UNCHANGED <<svars, fvars>>
    /\ phase = "grounded"
    /\ hl' = HighlightRun(text, refs)
    /\ phase' = "highlighted"
    /\ UNCHANGED <<entry, response, payload, wrapping, text, cleaned, parsed,
                   clause_texts, sentences, calls, refs, outcome>>

\* Lines 205-213 and 126: the result is assembled and returned.
Return ==
    /\ UNCHANGED <<svars, fvars>>
    /\ phase = "highlighted"
    /\ entry = "simplify"
    /\ outcome' = Returned(formatted_result(parsed.v, hl.text, refs))
    /\ phase' = "done"
    /\ UNCHANGED <<entry, response, payload, wrapping, text, cleaned, parsed,
                   clause_texts, sentences, calls, refs, hl>>



\* ------------------------------------------------ properties of one run

\* The units of the annotated text that no replacement inserted.
Original(h) ==
    LET Kept(i) == ~h.ins[i]
        idx == SelectSeq([i \in 1..Len(h.text) |-> i], Kept)
    IN  [k \in 1..Len(idx) |-> h.text[idx[k]]]

\* The response did not parse to a dict.
NotAnObject == ~(parsed.ok /\ isinstance(parsed.v, "dict"))

\* C1: for every response that cannot be parsed as a structured object,
\* simplify_legal_document returns a record and does not raise.
C1_UnparseableNeverRaises ==
    (entry = "simplify" /\ phase = "done" /\ NotAnObject) => ~outcome.raised

\* A field of the returned record.
ResultField(name) == dict_get(outcome.value, name, PyNone)

\* C2: when parsing fails the fallback record holds the raw response text as
\* its summary (a text), one placeholder clause asking for manual review, risk
\* 5 with no factors, no terms, one action item and the document in the outer
\* wrapper only, and nothing was grounded.
C2_FallbackRecord ==
    (entry = "simplify" /\ phase = "done" /\ ~parsed.ok) =>
        /\ ~outcome.raised
        /\ ResultField("SIMPLIFIED_SUMMARY").t = "str"
        /\ ResultField("SIMPLIFIED_SUMMARY").v = response
        /\ ResultField("KEY_CLAUSES").t = "list"
        /\ Len(ResultField("KEY_CLAUSES").v) = 1
        /\ dict_get(ResultField("KEY_CLAUSES").v[1], "explanation", PyNone)
                = PyStr(<<"Please review manually">>)
        /\ dict_get(ResultField("RISK_ASSESSMENT"), "overall_risk", PyNone) = PyInt(5)
        /\ dict_get(ResultField("RISK_ASSESSMENT"), "risk_factors", PyNone) = PyList(<<>>)
        /\ ResultField("IMPORTANT_TERMS") = PyDict(<<>>)
        /\ ResultField("ACTION_ITEMS").t = "list"
        /\ Len(ResultField("ACTION_ITEMS").v) = 1
        /\ ResultField("highlighted_document") = PyStr(DocumentDiv(text))
        /\ calls = <<>>

\* C3: a well-formed text, the same text between fences, and the same text
\* between fences whose opening fence is followed at once by json, with any
\* whitespace around them, are cleaned to the same text and parse to the
\* same value.
C3_FencesParseAlike ==
    (/\ entry = "simplify"
     /\ phase # "start"
     /\ wrapping.kind \in {"bare", "fence", "fence_json"}
     /\ payload \in WellFormedPayloads)
    => /\ cleaned = payload
       /\ phase # "cleaned" => parsed = [ok |-> TRUE, v |-> json_loads(payload).v]

C3_Witness ==
    /\ entry = "simplify"
    /\ phase = "parsed"
    /\ wrapping.kind = "fence_json"
    /\ wrapping.outer # <<>>
    /\ wrapping.inner # <<>>
    /\ parsed.v = json_loads(ObjectJson(MaxClauses)).v

\* The grounder has returned its mapping.
Grounded == entry = "simplify" /\ phase \in {"grounded", "highlighted"}

C5_EmptyDocumentGrounds ==
    (entry = "simplify" /\ sentences_of(text) = <<>>) =>
        /\ \A i \in 1..Len(calls) :
                calls[i].what \in {"sentences", "corpus"} => calls[i].n > 0
        /\ phase = "done" /\ parsed.ok /\ format_raises(parsed.v) = "" =>
                /\ ~outcome.raised
                /\ Len(refs) = Len(clause_texts)
                /\ \A i \in 1..Len(refs) : refs[i].v = <<>>

\* C6: for a document and a mapping the grounder built from it, taking the
\* inserted wrapper tags out of the annotated text gives the document back,
\* and no replacement matched inside markup an earlier replacement inserted.
C6_AnnotationPreservesText ==
    (entry = "simplify" /\ phase = "highlighted") =>
        /\ Original(hl) = text
        /\ ~hl.touched

\* One clause that references one span of usable length.
OneSpan == Len(refs) = 1 /\ Len(refs[1].v) = 1 /\ Wrappable(refs[1].v[1])

\* The places of the annotated text where the span stands in original units.
SpanPlaces(h, span) ==
    {p \in 1..Len(h.text) :
        /\ OccursAt(h.text, span, p)
        /\ \A k \in 0..(Len(span) - 1) : ~h.ins[p + k]}

\* Where unit p of the annotated text stood in the document.
OriginalIndex(h, p) == Cardinality({i \in 1..(p - 1) : ~h.ins[i]}) + 1

\* C7: with one clause and one span of usable length, the annotated text is
\* the document with every occurrence of the span wrapped in the markup that
\* carries the clause's identifier (an occurrence that overlaps a wrapped one
\* is not wrapped again), one wrapper when the span occurs once, and every
\* other character where it was.
C7_SingleSpanWrapped ==
    (phase = "highlighted" /\ OneSpan) =>
        LET span == refs[1].v[1]
            open == OpenHead \o refs[1].k \o OpenTail
            places == SpanPlaces(hl, span)
            occ == {i \in 1..Len(text) : OccursAt(text, span, i)}
        IN  /\ Original(hl) = text
            /\ places # {}
            /\ \A p \in places :
                /\ OccursAt(hl.text, open, p - Len(open))
                /\ OccursAt(hl.text, CloseTag, p + Len(span))
            /\ Len(hl.text) = Len(text) + Cardinality(places) * (Len(open) + Len(CloseTag))
            /\ \A p \in places : OriginalIndex(hl, p) \in occ
            /\ \A q \in occ :
                \E p \in places :
                    /\ OriginalIndex(hl, p) - Len(span) < q
                    /\ q < OriginalIndex(hl, p) + Len(span)
            /\ Cardinality(occ) = 1 =>
                LET i == CHOOSE x \in occ : TRUE
                IN  hl.text = SubSeq(text, 1, i - 1) \o open \o span \o CloseTag
                                \o SubSeq(text, i + Len(span), Len(text))

C7_Witness ==
    /\ entry = "simplify"
    /\ phase = "highlighted"
    /\ OneSpan
    /\ hl.text # text
    /\ Len(text) > Len(refs[1].v[1]) + 1

\* The span of the single reference occurs more than once and is wrapped twice.
C7_ManyOccurrences ==
    /\ phase = "highlighted"
    /\ OneSpan
    /\ Cardinality(SpanPlaces(hl, refs[1].v[1])) >= 2


\* ------------------------------------------- the server and its requests

\* What generate_content can give: an error, or a response text.
ModelError == <<"ModelCallError">>
ModelReplies ==
    { ModelError,
      ObjectJson(1),
      <<"[", "]">>,
      <<"s", "o", " ", "o", "n">> }

PipelineIdle ==
    /\ entry = "none"
    /\ response = <<>>
    /\ payload = <<>>
    /\ wrapping = Bare
    /\ text = <<>>
    /\ phase = "none"
    /\ cleaned = <<>>
    /\ parsed = NoParse
    /\ clause_texts = <<>>
    /\ sentences = <<>>
    /\ calls = <<>>
    /\ refs = <<>>
    /\ hl = NoHighlight
    /\ outcome = NoOutcome

Init == ServerIdle /\ PipelineIdle /\ SessionInit

\* A request arrives and waits for the event loop.
Arrive(r) ==
    /\ UNCHANGED <<pvars, fvars>>
    /\ pc[r] = "idle"
    /\ \E u \in Uploads \cup Questions : req' = [req EXCEPT ![r] = u]
    /\ pc' = [pc EXCEPT ![r] = "queued"]
    /\ UNCHANGED <<loc, status, loop, now, files, db>>

\* The handler ends with an HTTP status and gives the event loop up.
Ends(r, code) ==
    /\ status' = [status EXCEPT ![r] = code]
    /\ pc' = [pc EXCEPT ![r] = "done"]
    /\ loop' = 0

\* Lines 50-57: the event loop starts the handler, which checks the file type.
Begin(r) ==
    /\ UNCHANGED <<pvars, fvars>>
    /\ pc[r] = "queued"
    /\ req[r].kind = "upload"
    /\ loop = 0
    /\ IF SupportedType(req[r].filename)
       THEN /\ pc' = [pc EXCEPT ![r] = "read"]
            /\ loop' = r
            /\ status' = status
       ELSE Ends(r, 400)
    /\ UNCHANGED <<req, loc, now, files, db>>

\* Line 61, await file.read(): the read returns at once for a file held in
\* memory, and otherwise runs in a worker thread while the handler is suspended.
ReadFile(r) ==
    /\ UNCHANGED <<pvars, fvars>>
    /\ pc[r] = "read"
    /\ loop = r
    /\ \/ /\ pc' = [pc EXCEPT ![r] = "extract"]
          /\ loop' = loop
       \/ /\ pc' = [pc EXCEPT ![r] = "read_wait"]
          /\ loop' = 0
    /\ UNCHANGED <<req, loc, status, now, files, db>>

\* The read is done and the event loop resumes the handler.
ReadResume(r) ==
    /\ UNCHANGED <<pvars, fvars>>
    /\ pc[r] = "read_wait"
    /\ loop = 0
    /\ pc' = [pc EXCEPT ![r] = "extract"]
    /\ loop' = r
    /\ UNCHANGED <<req, loc, status, now, files, db>>

\* Lines 65-73: a PDF goes to extract_text_from_pdf, whose awaited coroutine
\* runs on without suspending; anything else is decoded.
Extract(r) ==
    /\ UNCHANGED <<pvars, fvars>>
    /\ pc[r] = "extract"
    /\ loop = r
    /\ IF IsPdf(req[r].filename)
       THEN IF req[r].pages = <<>>
            THEN /\ pc' = [pc EXCEPT ![r] = "save"]
                 /\ loc' = loc
            ELSE /\ pc' = [pc EXCEPT ![r] = "ocr"]
                 /\ loc' = [loc EXCEPT ![r].page = 1]
       ELSE /\ pc' = [pc EXCEPT ![r] = "save"]
            /\ loc' = [loc EXCEPT ![r].extracted_text = decode_ignore(req[r].bytes)]
    /\ UNCHANGED <<req, status, loop, now, files, db>>

\* Line 37, doc_ai_client.process_document: a plain call made on the event
\* loop.  In pc "ocr" the handler is inside it; here it returns the page's text
\* (line 38) or raises, which line 113 turns into status 500.
OcrReturn(r) ==
    /\ UNCHANGED <<pvars, fvars>>
    /\ pc[r] = "ocr"
    /\ loop = r
    /\ \/ /\ loc' = [loc EXCEPT
                ![r].extracted_text = @ \o req[r].pages[loc[r].page] \o <<"\n", "\n">>,
                ![r].page = @ + 1]
          /\ pc' = [pc EXCEPT ![r] =
                IF loc[r].page = Len(req[r].pages) THEN "save" ELSE "ocr"]
          /\ UNCHANGED <<status, loop>>
       \/ /\ Ends(r, 500)
          /\ loc' = loc
    /\ UNCHANGED <<req, now, files, db>>

\* Lines 76-81: the extracted text is written to a file named after the
\* upload and the current second; mode "w" replaces a file of that name.
SaveText(r) ==
    /\ UNCHANGED <<pvars, fvars>>
    /\ pc[r] = "save"
    /\ loop = r
    /\ LET path == save_path(req[r].filename, now)
           before == IF path \in DOMAIN files THEN files[path].writers ELSE <<>>
       IN  files' = [q \in DOMAIN files \cup {path} |->
                        IF q = path
                        THEN [content |-> loc[r].extracted_text,
                              writers |-> Append(before, r)]
                        ELSE files[q]]
    /\ pc' = [pc EXCEPT ![r] = "model"]
    /\ UNCHANGED <<req, loc, status, loop, now, db>>

\* Lines 85-87 and 112: generate_content is a plain call made on the event
\* loop.  In pc "model" the handler is inside it; here it raises or returns,
\* and simplify_legal_document runs to its end.
ModelReturn(r) ==
    /\ UNCHANGED <<pvars, fvars>>
    /\ pc[r] = "model"
    /\ loop = r
    /\ \E reply \in ModelReplies :
        IF reply = ModelError
        THEN Ends(r, 500) /\ loc' = loc
        ELSE \E o \in simplify_legal_document(reply, loc[r].extracted_text) :
                IF o.raised
                THEN Ends(r, 500) /\ loc' = loc
                ELSE /\ loc' = [loc EXCEPT ![r].simplified_result = o.value]
                     /\ pc' = [pc EXCEPT ![r] = "persist"]
                     /\ UNCHANGED <<status, loop>>
    /\ UNCHANGED <<req, now, files, db>>

\* The row lines 93-100 build.
Document(r) ==
    [by |-> r,
     filename |-> req[r].filename,
     original_text |-> loc[r].extracted_text,
     simplified_text |-> convert_sets_to_lists(loc[r].simplified_result),
     risk_score |-> dict_get(loc[r].simplified_result, "RISK_ASSESSMENT", PyInt(5)),
     key_clauses |-> dict_get(loc[r].simplified_result, "KEY_CLAUSES", PyList(<<>>)),
     processing_status |-> "completed"]

\* Lines 90-102: the result is serialised and the row committed; json.dumps
\* or the commit can raise.
Persist(r) ==
    /\ UNCHANGED <<pvars, fvars>>
    /\ pc[r] = "persist"
    /\ loop = r
    /\ IF \/ ~Serialisable(Document(r).simplified_text)
          \/ ~Serialisable(Document(r).risk_score)
          \/ ~Serialisable(Document(r).key_clauses)
       THEN Ends(r, 500) /\ db' = db
       ELSE \/ /\ db' = Append(db, Document(r))
               /\ pc' = [pc EXCEPT ![r] = "refresh"]
               /\ UNCHANGED <<status, loop>>
            \/ Ends(r, 500) /\ db' = db
    /\ UNCHANGED <<req, loc, now, files>>

\* Lines 103-111: the row is read back and the response returned; the read
\* can raise, after the commit.
Refresh(r) ==
    /\ UNCHANGED <<pvars, fvars>>
    /\ pc[r] = "refresh"
    /\ loop = r
    /\ \/ Ends(r, 200)
       \/ Ends(r, 500)
    /\ UNCHANGED <<req, loc, now, files, db>>

\* main.py lines 139-154: the event loop starts ask_question, which looks the
\* document up; its id is its place in the table.
AskBegin(r) ==
    /\ UNCHANGED <<pvars, fvars>>
    /\ pc[r] = "queued"
    /\ req[r].kind = "ask"
    /\ loop = 0
    /\ IF req[r].document_id \in 1..Len(db)
       THEN /\ pc' = [pc EXCEPT ![r] = "ask_model"]
            /\ loop' = r
            /\ status' = status
       ELSE Ends(r, 404)
    /\ UNCHANGED <<req, loc, now, files, db>>

\* Lines 155-159 and ai_services.py 228-229: generate_content is a plain call
\* made on the event loop.  In pc "ask_model" the handler is inside it; here it
\* raises, which nothing catches, or returns the answer's text.
AskReturn(r) ==
    /\ UNCHANGED <<pvars, fvars>>
    /\ pc[r] = "ask_model"
    /\ loop = r
    /\ \E reply \in ModelReplies :
        IF reply = ModelError
        THEN Ends(r, 500) /\ loc' = loc
        ELSE /\ Ends(r, 200)
             /\ loc' = [loc EXCEPT ![r].answer =
                    <<"<div class='qa-response'>">> \o reply \o <<"</div>">>]
    /\ UNCHANGED <<req, now, files, db>>

\* A second passes.
Tick ==
    /\ UNCHANGED <<pvars, fvars>>
    /\ now < MaxTime
    /\ now' = now + 1
    /\ UNCHANGED <<pc, req, loc, status, loop, files, db>>

\* A step of request r's handler.
HandlerStep(r) ==
    \/ Begin(r) \/ ReadFile(r) \/ ReadResume(r) \/ Extract(r) \/ OcrReturn(r)
    \/ SaveText(r) \/ ModelReturn(r) \/ Persist(r) \/ Refresh(r)
    \/ AskBegin(r) \/ AskReturn(r)

Next ==
    \/ \E r \in Requests : Arrive(r)
    \/ \E r \in Requests : Begin(r)
    \/ \E r \in Requests : ReadFile(r)
    \/ \E r \in Requests : ReadResume(r)
    \/ \E r \in Requests : Extract(r)
    \/ \E r \in Requests : OcrReturn(r)
    \/ \E r \in Requests : SaveText(r)
    \/ \E r \in Requests : ModelReturn(r)
    \/ \E r \in Requests : Persist(r)
    \/ \E r \in Requests : Refresh(r)
    \/ \E r \in Requests : AskBegin(r)
    \/ \E r \in Requests : AskReturn(r)
    \/ Tick

Spec == Init /\ [][Next]_vars

\* One run of simplify_legal_document, with the server at rest.
PipelineNext ==
    \/ Clean
    \/ Loads
    \/ Format
    \/ Encode
    \/ Search
    \/ Highlight
    \/ Return

SpecPipeline == PipelineInit /\ [][PipelineNext]_vars

\* The requests that are inside an external call: the OCR call, or the model
\* call of an upload or of a question.
InExternalCall(r) == pc[r] \in {"ocr", "model", "ask_model"}

\* The requests that have arrived and not ended.
Pending(r) == pc[r] \notin {"idle", "done"}

\* What request r has left behind: a row it added, a file that holds what it
\* wrote.
HasRow(r) == \E i \in 1..Len(db) : db[i].by = r
HasFile(r) ==
    \E p \in DOMAIN files : files[p].writers[Len(files[p].writers)] = r

\* C8: a request that ended as failed has persisted nothing: no row of the
\* documents table is its own and no file it wrote remains.
C8_NoPartialPersistence ==
    \A r \in Requests :
        (req[r].kind = "upload" /\ status[r] = 500) => ~HasRow(r) /\ ~HasFile(r)

\* C9: while a request is inside its OCR call or its model call, every other
\* pending request can take its next step.
C9_ExternalCallsSuspend ==
    \A r, r2 \in Requests :
        (r # r2 /\ InExternalCall(r) /\ Pending(r2))
            => ENABLED HandlerStep(r2)

\* C10: no file of the save directory is written by two requests: all the
\* writes a file has had are one request's.
C10_NoSharedFile ==
    \A p \in DOMAIN files :
        \A i, j \in 1..Len(files[p].writers) :
            files[p].writers[i] = files[p].writers[j]

\* C11: the segmenter keeps exactly the trimmed pieces of at least 20
\* characters, and the annotator wraps a referenced span exactly when it is
\* not empty and at least 20 characters long.
C11_ThresholdAtLeastTwenty ==
    /\ (entry = "simplify" /\ calls # <<>>) =>
            LET AtLeast(x) == Len(x) >= MinLen
            IN  sentences = SelectSeq(pieces_of(text), AtLeast)
    /\ (entry = "annotate" /\ phase = "highlighted") =>
            LET span == refs[1].v[1]
            IN  (hl.text # text) <=> (span # <<>> /\ Len(span) >= MinLen)

\* The risk assessment of the parsed response, an empty one when it has none.
RiskData == dict_get(parsed.v, "RISK_ASSESSMENT", PyDict(<<>>))

\* The overall risk the result is to show: the response's number, or 5.
ExpectedRisk ==
    IF isinstance(dict_get(RiskData, "overall_risk", PyNone), "int")
    THEN dict_get(RiskData, "overall_risk", PyNone)
    ELSE PyInt(5)

\* A successful parse of an object whose risk assessment is an object or is
\* missing has been rendered.
RiskRendered ==
    /\ entry = "simplify"
    /\ phase = "done"
    /\ parsed.ok
    /\ isinstance(parsed.v, "dict")
    /\ isinstance(RiskData, "dict")
    /\ ~outcome.raised

\* C12: after a successful parse the result shows the overall risk the
\* response gave when that is a number, and 5 when the field is absent, is
\* not a number, or the risk assessment is missing.
C12_OverallRiskDefault ==
    RiskRendered =>
        ResultField("RISK_ASSESSMENT")
            = PyStr(risk_html(PyDict(dict_set(RiskData.v, "overall_risk", ExpectedRisk))))

\* The spans clause i references.
SpansOf(i) == {refs[i].v[j] : j \in 1..Len(refs[i].v)}

\* Clauses i and j, in mapping order, are the two that reference span.
ReferencedByBoth(i, j, span) ==
    /\ i < j
    /\ span \in SpansOf(i) \cap SpansOf(j)
    /\ \A k \in 1..Len(refs) : span \in SpansOf(k) => k \in {i, j}

\* The clauses whose opening tags stand one after another and end just
\* before place p of h, outermost first.
RECURSIVE OpenersBefore(_, _)
OpenersBefore(h, p) ==
    LET ends == {k \in 1..Len(refs) :
                    /\ p > Len(OpenTag(refs[k].k))
                    /\ OccursAt(h, OpenTag(refs[k].k), p - Len(OpenTag(refs[k].k)))}
    IN  IF ends = {} THEN <<>>
        ELSE LET k == CHOOSE x \in ends : TRUE
             IN  Append(OpenersBefore(h, p - Len(OpenTag(refs[k].k))), k)

\* How many closing tags stand one after another from place p of h on.
RECURSIVE ClosersFrom(_, _)
ClosersFrom(h, p) ==
    IF OccursAt(h, CloseTag, p) THEN 1 + ClosersFrom(h, p + Len(CloseTag)) ELSE 0

\* At every place of span in h the later clause's wrapper stands directly
\* around the span, inside a wrapper of the earlier clause, every wrapper
\* around the span closed after it.
NestedAt(h, early, late, span) ==
    LET ps == MatchPositions(h, span, 1, -1)
    IN  \A n \in 1..Len(ps) :
            LET openers == OpenersBefore(h, ps[n])
            IN  /\ openers # <<>>
                /\ openers[Len(openers)] = late
                /\ \E m \in 1..(Len(openers) - 1) : openers[m] = early
                /\ ClosersFrom(h, ps[n] + Len(span)) = Len(openers)

\* C13: when two clauses reference the identical sentence, in the annotated
\* text every occurrence of the sentence stands inside the earlier clause's
\* wrapper with the later clause's wrapper directly around it, and the
\* sentence occurs as often as in the document.
C13_IdenticalSpansNest ==
    (entry = "simplify" /\ phase = "highlighted") =>
        \A i, j \in 1..Len(refs) : \A span \in SpansOf(i) :
            ReferencedByBoth(i, j, span) =>
                /\ Len(MatchPositions(hl.text, span, 1, -1))
                        = Len(MatchPositions(text, span, 1, -1))
                /\ NestedAt(hl.text, i, j, span)

\* ------------------------------------------------ the frontend's script

\* The names of the files the user uploads, and the questions asked.
FileNames == {"a.txt", "b.pdf"}
QuestionTexts == {"q1", "q2"}

\* What /ask-question/ answers: the model's text in the backend's wrapper.
Answers == { <<"<div class='qa-response'>">> \o <<"o", "k">> \o <<"</div>">> }

\* parse_response on a text: the value json.loads gives, or a dict that
\* holds the text when json.loads raises.
parse_response(resp) ==
    IF json_loads(resp).ok THEN json_loads(resp).v
    ELSE PyDict(<<[k |-> "text", v |-> PyStr(resp)]>>)

\* Lines 127-143: Process Document, and the backend answers 200.  doc_data
\* is the response, qa_history a new empty list, and the history gets an entry
\* with another new empty list.
UploadSucceeds ==
    /\ UNCHANGED <<pvars, svars>>
    /\ uploaded < MaxUploads
    /\ \E f \in FileNames :
        LET result == [document_id |-> uploaded + 1, filename |-> f]
        IN  /\ doc_data' = result
            /\ heap' = heap \o <<<<>>, <<>>>>
            /\ qa_history' = Len(heap) + 1
            /\ doc_history' = Append(doc_history,
                    [filename |-> f, data |-> result, qa |-> Len(heap) + 2])
    /\ uploaded' = uploaded + 1
    /\ notice' = "Document processed successfully"
    /\ UNCHANGED asked

\* Lines 144-147: the backend answers another status, or the request raises.
UploadFails ==
    /\ UNCHANGED <<pvars, svars>>
    /\ uploaded < MaxUploads
    /\ notice' \in {"Upload failed", "Error"}
    /\ UNCHANGED <<doc_data, qa_history, doc_history, heap, uploaded, asked>>

\* Lines 110-114: a button of the sidebar.  qa_history becomes the entry's
\* own list object.
SelectDocument(i) ==
    /\ UNCHANGED <<pvars, svars>>
    /\ i \in 1..Len(doc_history)
    /\ doc_data' = doc_history[i].data
    /\ qa_history' = doc_history[i].qa
    /\ notice' = ""
    /\ UNCHANGED <<doc_history, heap, uploaded, asked>>

\* Lines 198-218: a question about the document being viewed, answered with
\* 200.  The entry is appended to the list qa_history refers to, and the
\* last entry of the history is made to refer to that list.  about is
\* history: the document_id the question was sent with (line 204).
AskSucceeds(question) ==
    /\ UNCHANGED <<pvars, svars>>
    /\ doc_data # NoDocument
    /\ asked < MaxQuestions
    /\ \E answer \in Answers, time \in 0..MaxTime :
        LET qa_entry == [q |-> question, a |-> parse_response(answer), time |-> time,
                         about |-> doc_data.document_id]
        IN  heap' = [heap EXCEPT ![qa_history] = Append(@, qa_entry)]
    /\ doc_history' =
        IF doc_history = <<>> THEN doc_history
        ELSE [doc_history EXCEPT ![Len(doc_history)].qa = qa_history]
    /\ asked' = asked + 1
    /\ notice' = ""
    /\ UNCHANGED <<doc_data, qa_history, uploaded>>

\* Lines 225-228: the backend answers another status, or the request raises.
AskFails(question) ==
    /\ UNCHANGED <<pvars, svars>>
    /\ doc_data # NoDocument
    /\ asked < MaxQuestions
    /\ notice' \in {"Failed to get answer", "Error"}
    /\ asked' = asked + 1
    /\ UNCHANGED <<doc_data, qa_history, doc_history, heap, uploaded>>

FrontendInit == ServerIdle /\ PipelineIdle /\ SessionInit

FrontendNext ==
    \/ UploadSucceeds
    \/ UploadFails
    \/ \E i \in 1..MaxUploads : SelectDocument(i)
    \/ \E q \in QuestionTexts : AskSucceeds(q)
    \/ \E q \in QuestionTexts : AskFails(q)

SpecFrontend == FrontendInit /\ [][FrontendNext]_vars

\* The Q&A list stored with entry i of the history.
QaOf(i) == heap[doc_history[i].qa]

\* C14: the Q&A list stored with each entry of the document history holds
\* only questions that were asked while that entry's document was the one
\* being viewed.
C14_QaListPerDocument ==
    \A i \in 1..Len(doc_history) :
        \A n \in 1..Len(QaOf(i)) :
            QaOf(i)[n].about = doc_history[i].data.document_id

=============================================================================
